---- MODULE Spec2Model ----
(***************************************************************************)
(* Level / scale / size bookkeeping of the simulated homomorphic           *)
(* arithmetic unit (HEOperations) and of the encrypted logistic regression *)
(* built on it (HomomorphicLogisticRegression), from                       *)
(* machine-learning/fullyEndtoEndLogisticRegression.py.                    *)
(*                                                                         *)
(* An HEVector is modelled by its metadata (size, level, scale).  Every    *)
(* scale the program produces is a product of 2**40 factors, so the field  *)
(* scale holds log2 of the Python value: a.scale * b.scale is the sum of   *)
(* the two fields and 2**40 is Log2BaseScale.                              *)
(*                                                                         *)
(* The caller holds the encrypted dataset (a sample of NFeatures features  *)
(* and a label of size 1, as returned by encrypt_data) and one working     *)
(* value, held, which is rebound to the result of each call.               *)
(***************************************************************************)
EXTENDS Integers, Sequences, FiniteSets, TLC

\* ---- bounds of the model ----
NFeatures == 2          \* feature count of the encrypted dataset
MaxCount == 2           \* each ledger counter is explored up to this value
MaxScaleFactors == 6    \* scales up to (2**40)^MaxScaleFactors
MaxUnder == 0           \* levels are explored down to -MaxUnder
MaxExp == 3             \* exponents passed to power: -1..MaxExp
MaxSamples == 2         \* samples in the encrypted dataset: 1..MaxSamples
MaxIter == 2            \* n_iter: 1..MaxIter
MaxBatch == 3           \* batch_size: 1..MaxBatch
MaxLedger == 4          \* calls on the model are made while the counters are <= MaxLedger
MaxPasses == 4          \* fit runs with n_iter * n_samples <= MaxPasses
MaxDepthRuns == 3       \* fits of the depth scenario in one behaviour
MaxFailUpdate == 1      \* the provider fails in one of the first MaxFailUpdate updates

\* ---- program constants ----
DefaultLevel == 6       \* HEVector.__post_init__: self.level = 6
Log2BaseScale == 40     \* HEVector.__post_init__ / bootstrap: 2**40
DefaultMaxDepth == 6    \* HEOperations.__init__: self.max_depth = 6

VARIABLES
    held,                   \* the caller's working HEVector (NoVec: none yet)
    multiplication_count,   \* he_ops.multiplication_count
    addition_count,         \* he_ops.addition_count
    bootstrap_count,        \* he_ops.bootstrap_count
    max_depth,              \* he_ops.max_depth
    weights,                \* model.weights (NoVec: None)
    bias,                   \* model.bias (NoVec: None)
    last,                   \* the last call: operands, result, ledger before
    fresh_level,            \* level HEVector.__post_init__ gives a new vector
    weights_ct,             \* plaintext of model.weights.ciphertext
    bias_ct,                \* plaintext of model.bias.ciphertext
    decrypt_log,            \* plaintexts decrypt returned during the last call on the model
    tr,                     \* the last call on the model: inputs, outputs, state before
    depth_runs,             \* final bootstrap_count of the depth scenario, per budget
    config,                 \* model.n_iter, model.batch_size, model.learning_rate
    data                    \* plaintexts of the caller's encrypted_X and encrypted_y

vars == <<held, multiplication_count, addition_count, bootstrap_count,
          max_depth, weights, bias, last, fresh_level, weights_ct, bias_ct,
          decrypt_log, tr, depth_runs, config, data>>

Min(x, y) == IF x <= y THEN x ELSE y
Max(x, y) == IF x >= y THEN x ELSE y

\* dataclass HEVector, metadata fields only
HEVector(size, level, scale) == [size |-> size, level |-> level, scale |-> scale]

\* Python None where an HEVector is expected
NoVec == HEVector(0, 0, 0)

\* encryption that yields values of level 3
encrypt_vector_shallow(n) == HEVector(n, 3, Log2BaseScale)

\* HEVector(ciphertext=..., size=n): __post_init__ fills level and scale
encrypt_vector(n) == HEVector(n, fresh_level, Log2BaseScale)

\* The ledger of he_ops as the operators thread it; prods is the list of
\* new_level values computed by the multiply calls of the current operation.
Ledger == [mult |-> multiplication_count, add |-> addition_count,
           boot |-> bootstrap_count, prods |-> <<>>]

\* return of a newly built HEVector
Ret(v, he) == [val |-> v, he |-> he, same |-> FALSE]

\* return of the very object that was passed as the argument a
RetSame(v, he) == [val |-> v, he |-> he, same |-> TRUE]
\* bootstrap that returns an already-refreshed value as it is
bootstrap_short_circuit(a, he) ==
    IF a.level = max_depth THEN RetSame(a, he)
    ELSE RetSame([a EXCEPT !.level = max_depth, !.scale = Log2BaseScale],
                 [he EXCEPT !.boot = @ + 1])

\* HEOperations.bootstrap: bootstrap_count += 1, then a.level and a.scale are
\* assigned in place and a itself is returned
bootstrap(a, he) ==
    RetSame([a EXCEPT !.level = max_depth, !.scale = Log2BaseScale],
            [he EXCEPT !.boot = @ + 1])

\* add that takes the level of its first operand
add_first_level(a, b, he) ==
    Ret(HEVector(Max(a.size, b.size), a.level, a.scale),
        [he EXCEPT !.add = @ + 1])

\* HEOperations.add
add(a, b, he) ==
    Ret(HEVector(Max(a.size, b.size), Min(a.level, b.level), a.scale),
        [he EXCEPT !.add = @ + 1])

\* HEOperations.add_scalar
add_scalar(a, scalar, he) ==
    Ret(HEVector(a.size, a.level, a.scale), he)

\* multiply that refreshes only at new_level <= 0
multiply_late_refresh(a, b, he) ==
    LET new_level == Min(a.level, b.level) - 1
        new_scale == a.scale + b.scale
        result == HEVector(Min(a.size, b.size), new_level, new_scale)
        he1 == [he EXCEPT !.mult = @ + 1, !.prods = Append(@, new_level)]
        refreshed == bootstrap(result, he1)
    IN  IF new_level <= 0 THEN Ret(refreshed.val, refreshed.he)
        ELSE Ret(result, he1)

\* multiply that refreshes only a product of level exactly 1
multiply_refresh_at_one(a, b, he) ==
    LET new_level == Min(a.level, b.level) - 1
        new_scale == a.scale + b.scale
        result == HEVector(Min(a.size, b.size), new_level, new_scale)
        he1 == [he EXCEPT !.mult = @ + 1, !.prods = Append(@, new_level)]
        refreshed == bootstrap(result, he1)
    IN  IF new_level = 1 THEN Ret(refreshed.val, refreshed.he)
        ELSE Ret(result, he1)

\* HEOperations.multiply, with its auto-refresh at new_level <= 1
multiply(a, b, he) ==
    LET new_level == Min(a.level, b.level) - 1
        new_scale == a.scale + b.scale
        result == HEVector(Min(a.size, b.size), new_level, new_scale)
        he1 == [he EXCEPT !.mult = @ + 1, !.prods = Append(@, new_level)]
        refreshed == bootstrap(result, he1)
    IN  IF new_level <= 1 THEN Ret(refreshed.val, refreshed.he)
        ELSE Ret(result, he1)

\* multiply_scalar that consumes a level, as a ciphertext product does
multiply_scalar_consumes(a, scalar, he) ==
    Ret(HEVector(a.size, a.level - 1, a.scale), he)

\* HEOperations.multiply_scalar
multiply_scalar(a, scalar, he) ==
    Ret(HEVector(a.size, a.level, a.scale), he)

\* HEOperations.dot_product
dot_product(a, b, he) ==
    Ret(HEVector(1, Min(a.level, b.level) - 1, a.scale + b.scale), he)

\* the loop of HEOperations.power: for _ in range(count): result = multiply(result, a)
RECURSIVE PowerLoop(_, _, _, _)
PowerLoop(result, a, count, he) ==
    IF count <= 0 THEN Ret(result, he)
    ELSE LET r == multiply(result, a, he)
         IN  PowerLoop(r.val, a, count - 1, r.he)

\* power whose loop runs n times
power_n_products(a, n, he) ==
    IF n = 1 THEN RetSame(a, he)
    ELSE IF n <= 0 THEN RetSame(a, he)
    ELSE PowerLoop(a, a, n, he)

\* HEOperations.power; with an empty range(n - 1) result is still a
power(a, n, he) ==
    IF n = 1 THEN RetSame(a, he)
    ELSE IF n - 1 <= 0 THEN RetSame(a, he)
    ELSE PowerLoop(a, a, n - 1, he)

\* HomomorphicLogisticRegression.sigmoid_approximation; the coefficients
\* 0.1973, -0.0048 and 0.5 are written in units of 1e-4
sigmoid_approximation(x, he) ==
    LET x_squared == multiply(x, x, he)
        x_cubed == multiply(x_squared.val, x, x_squared.he)
        term1 == multiply_scalar(x, 1973, x_cubed.he)
        term2 == multiply_scalar(x_cubed.val, -48, term1.he)
        result == add(term1.val, term2.val, term2.he)
    IN  add_scalar(result.val, 5000, result.he)

\* forward_pass whose dot product is given the level of its operands
forward_pass_free_dot(enc_x, he) ==
    LET wx == HEVector(1, Min(enc_x.level, weights.level),
                       enc_x.scale + weights.scale)
        logits == add(wx, bias, he)
    IN  sigmoid_approximation(logits.val, logits.he)

\* the body of forward_pass, reading self.weights and self.bias as w and b
ForwardPassOn(w, b, enc_x, he) ==
    LET wx == HEVector(1, Min(enc_x.level, w.level) - 1,
                       enc_x.scale + w.scale)
        logits == add(wx, b, he)
    IN  sigmoid_approximation(logits.val, logits.he)

\* HomomorphicLogisticRegression.forward_pass
forward_pass(enc_x, he) == ForwardPassOn(weights, bias, enc_x, he)

\* ---- ciphertext payloads ----
\* A ciphertext is modelled by the plaintext vector it encrypts, a sequence of
\* integers: the provider's operations act on it as the plaintext operations
\* do and its decrypt returns it.  Features, labels, weights and bias are
\* whole numbers; the activation's output is held in units of 1e-4 (its
\* coefficients are 0.1973, -0.0048 and 0.5).  learning_rate is a multiple of
\* 1000, which makes the step learning_rate * 0.01 * 0.1 a whole number.

\* sum of x[i] * w[i] over the first n slots (CKKSVector.dot)
RECURSIVE DotTo(_, _, _)
DotTo(x, w, n) == IF n = 0 THEN 0 ELSE x[n] * w[n] + DotTo(x, w, n - 1)

\* plaintext of forward_pass's output: dot, + bias, then the cubic activation
forward_ct(x, w, b) ==
    LET z == DotTo(x, w, Min(Len(x), Len(w))) + b[1]
    IN  <<1973 * z + (-48) * z * z * z + 5000>>

\* small_lr * 0.1 of compute_gradient_update, with small_lr = learning_rate * 0.01
UpdateStep(lr) == lr \div 1000

\* the provider calls of compute_gradient_update in the order they are made
UpdateCalls == <<"sub_274", "mul_276", "mul_277", "mul_278", "sub_278",
                 "encrypt_279", "sub_280">>

CallIndex(c) == CHOOSE i \in 1..Len(UpdateCalls) : UpdateCalls[i] = c

\* the provider call that raises during a call on the model: call fail_call
\* of the fail_update-th compute_gradient_update (fail_update = 0: none)
NoFailure == [fail_update |-> 0, fail_call |-> "none"]

\* The model and its he_ops as fit, predict and the update thread them:
\* metadata and payload of weights and bias, the ledger, the plaintexts
\* decrypted, the ordered list of completed forward passes and updates, the
\* pending exception, the number of compute_gradient_update calls begun and
\* the provider's failure.
ModelStateWith(plan) ==
    [weights |-> weights, bias |-> bias, w |-> weights_ct, b |-> bias_ct,
     he |-> Ledger, dec |-> <<>>, trace |-> <<>>, error |-> "none",
     updates |-> 0, plan |-> plan]

ModelState == ModelStateWith(NoFailure)

\* HomomorphicLogisticRegression.initialize_weights; raw_weights is the draw
\* of np.random.uniform
initialize_weights(st, n_features, raw_weights) ==
    [st EXCEPT !.weights = encrypt_vector(n_features),
               !.bias = encrypt_vector(1),
               !.w = raw_weights,
               !.b = <<0>>]

\* a forward pass that decrypts the weights to compute on plaintext
ForwardStepOnPlaintext(st, idx, x) ==
    LET r == ForwardPassOn(st.weights, st.bias, encrypt_vector(Len(x)), st.he)
    IN  [st EXCEPT !.he = r.he, !.trace = Append(@, <<"forward", idx>>),
                   !.dec = Append(@, st.w)]

\* a forward pass that charges the level of its dot product to the weights
ForwardStepChargesWeights(st, idx, x) ==
    LET r == ForwardPassOn(st.weights, st.bias, encrypt_vector(Len(x)), st.he)
    IN  [st EXCEPT !.he = r.he, !.trace = Append(@, <<"forward", idx>>),
                   !.weights.level = @ - 1]

\* forward_pass of the sample with plaintext x: the ledger moves as
\* forward_pass moves it and the completed pass is noted
ForwardStep(st, idx, x) ==
    LET r == ForwardPassOn(st.weights, st.bias, encrypt_vector(Len(x)), st.he)
    IN  [st EXCEPT !.he = r.he, !.trace = Append(@, <<"forward", idx>>)]

\* the update that steps along the sign of the error term enc_pred - enc_y
compute_gradient_update_error(st, idx, x, y, pred, lr) ==
    LET error_ct == IF pred[1] >= 10000 * y[1] THEN 1 ELSE -1
        new_w == [i \in 1..Len(st.w) |-> st.w[i] - x[i] * error_ct * UpdateStep(lr)]
        new_b == <<st.b[1] - error_ct * UpdateStep(lr)>>
    IN  [st EXCEPT !.w = new_w, !.b = new_b,
                   !.he.mult = @ + 2, !.he.add = @ + 2,
                   !.updates = @ + 1,
                   !.trace = Append(@, <<"update", idx>>)]

\* the update that counts the provider calls it makes: three products and
\* three differences
compute_gradient_update_counts_calls(st, idx, x, y, pred, lr) ==
    LET failing == st.updates + 1 = st.plan.fail_update
        reached(c) == ~failing \/ CallIndex(st.plan.fail_call) > CallIndex(c)
        new_w == [i \in 1..Len(st.w) |-> st.w[i] - x[i] * UpdateStep(lr)]
        new_b == <<st.b[1] - UpdateStep(lr)>>
    IN  [st EXCEPT !.w = IF reached("sub_278") THEN new_w ELSE @,
                   !.b = IF reached("sub_280") THEN new_b ELSE @,
                   !.he.mult = IF failing THEN @ ELSE @ + 3,
                   !.he.add = IF failing THEN @ ELSE @ + 3,
                   !.updates = @ + 1,
                   !.error = IF failing THEN "EncryptionProviderError" ELSE @,
                   !.trace = IF failing THEN @ ELSE Append(@, <<"update", idx>>)]

\* HomomorphicLogisticRegression.compute_gradient_update.  The provider call
\* st.plan.fail_call raises in the st.plan.fail_update-th update: the
\* statements before it have taken effect, the later ones have not.
compute_gradient_update(st, idx, x, y, pred, lr) ==
    LET failing == st.updates + 1 = st.plan.fail_update
        reached(c) == ~failing \/ CallIndex(st.plan.fail_call) > CallIndex(c)
        new_w == [i \in 1..Len(st.w) |-> st.w[i] - x[i] * UpdateStep(lr)]
        new_b == <<st.b[1] - UpdateStep(lr)>>
    IN  [st EXCEPT !.w = IF reached("sub_278") THEN new_w ELSE @,
                   !.b = IF reached("sub_280") THEN new_b ELSE @,
                   !.he.mult = IF failing THEN @ ELSE @ + 2,
                   !.he.add = IF failing THEN @ ELSE @ + 2,
                   !.updates = @ + 1,
                   !.error = IF failing THEN "EncryptionProviderError" ELSE @,
                   !.trace = IF failing THEN @ ELSE Append(@, <<"update", idx>>)]

\* the sample loop that updates with the previous prediction before the
\* forward pass of the sample
RECURSIVE FitSamplesUpdateFirst(_, _, _, _)
FitSamplesUpdateFirst(st, c, batch_indices, i) ==
    IF i > Len(batch_indices) \/ st.error # "none" THEN st
    ELSE LET idx == batch_indices[i]
             enc_pred == forward_ct(c.X[idx], st.w, st.b)
             upd == compute_gradient_update(st, idx, c.X[idx], c.y[idx],
                                            enc_pred, c.learning_rate)
             fwd == ForwardStep(upd, idx, c.X[idx])
         IN  FitSamplesUpdateFirst(fwd, c, batch_indices, i + 1)

\* for idx in batch_indices: forward_pass, then compute_gradient_update; an
\* exception ends the loops
RECURSIVE FitSamples(_, _, _, _)
FitSamples(st, c, batch_indices, i) ==
    IF i > Len(batch_indices) \/ st.error # "none" THEN st
    ELSE LET idx == batch_indices[i]
             enc_pred == forward_ct(c.X[idx], st.w, st.b)
             fwd == ForwardStep(st, idx, c.X[idx])
             upd == compute_gradient_update(fwd, idx, c.X[idx], c.y[idx],
                                            enc_pred, c.learning_rate)
         IN  FitSamples(upd, c, batch_indices, i + 1)

\* the batch loop that stops before a batch shorter than batch_size
RECURSIVE FitBatchesFullOnly(_, _, _, _)
FitBatchesFullOnly(st, c, indices, batch_start) ==
    IF batch_start + c.batch_size > Len(c.X) \/ st.error # "none" THEN st
    ELSE LET batch_end == Min(batch_start + c.batch_size, Len(c.X))
             batch_indices == SubSeq(indices, batch_start + 1, batch_end)
         IN  FitBatchesFullOnly(FitSamples(st, c, batch_indices, 1), c, indices,
                                batch_start + c.batch_size)

\* for batch_start in range(0, n_samples, batch_size); indices[batch_start:batch_end]
\* is SubSeq(indices, batch_start + 1, batch_end) with samples numbered from 1
RECURSIVE FitBatches(_, _, _, _)
FitBatches(st, c, indices, batch_start) ==
    IF batch_start >= Len(c.X) \/ st.error # "none" THEN st
    ELSE LET batch_end == Min(batch_start + c.batch_size, Len(c.X))
             batch_indices == SubSeq(indices, batch_start + 1, batch_end)
         IN  FitBatches(FitSamples(st, c, batch_indices, 1), c, indices,
                        batch_start + c.batch_size)

\* for epoch in range(n_iter), with perms[epoch] the epoch's np.random.permutation
RECURSIVE FitEpochs(_, _, _)
FitEpochs(st, c, epoch) ==
    IF epoch > c.n_iter \/ st.error # "none" THEN st
    ELSE FitEpochs(FitBatches(st, c, c.perms[epoch], 0), c, epoch + 1)

\* fit that initializes the weights on every call
fit_always_initializes(st, c, n_features) ==
    FitEpochs(initialize_weights(st, n_features, c.draw), c, 1)

\* HomomorphicLogisticRegression.fit; c holds encrypted_X, encrypted_y, the
\* configuration, the permutations drawn and the weights drawn if any are
fit(st, c, n_features) ==
    LET st0 == IF st.weights = NoVec
               THEN initialize_weights(st, n_features, c.draw)
               ELSE st
    IN  FitEpochs(st0, c, 1)

\* the loop of predict: forward_pass(enc_x), append
RECURSIVE PredictLoop(_, _, _, _)
PredictLoop(st, X, i, encrypted_predictions) ==
    IF i > Len(X) THEN [st |-> st, preds |-> encrypted_predictions]
    ELSE PredictLoop(ForwardStep(st, i, X[i]), X, i + 1,
                     Append(encrypted_predictions, forward_ct(X[i], st.w, st.b)))

\* predict that returns its predictions last sample first
predict_reversed(st, X) ==
    LET r == PredictLoop(st, X, 1, <<>>)
    IN  [r EXCEPT !.preds = [i \in 1..Len(@) |-> @[Len(@) + 1 - i]]]

\* HomomorphicLogisticRegression.predict
predict(st, X) == PredictLoop(st, X, 1, <<>>)

\* the loop of decrypt_predictions: decrypt, take the first slot, threshold
RECURSIVE DecryptLoop(_, _, _, _, _)
DecryptLoop(st, preds, threshold, i, predictions) ==
    IF i > Len(preds) THEN [st |-> st, labels |-> predictions]
    ELSE LET decrypted == preds[i]
             pred_value == decrypted[1]
         IN  DecryptLoop([st EXCEPT !.dec = Append(@, decrypted)], preds,
                         threshold, i + 1,
                         Append(predictions,
                                IF pred_value >= threshold THEN 1 ELSE 0))

\* decrypt_predictions with a strict threshold
decrypt_predictions_strict(st, preds, threshold) ==
    LET r == DecryptLoop(st, preds, threshold, 1, <<>>)
    IN  [r EXCEPT !.labels = [i \in 1..Len(preds) |->
                                 IF preds[i][1] > threshold THEN 1 ELSE 0]]

\* HomomorphicLogisticRegression.decrypt_predictions
decrypt_predictions(st, preds, threshold) ==
    DecryptLoop(st, preds, threshold, 1, <<>>)

\* ---- the caller ----
\* plaintext lengths encrypt_data encrypts: X[i] (n_features) and [y[i]] (1)
Lengths == {NFeatures, 1}

\* what encrypt_data hands to the caller
Dataset == {encrypt_vector(n) : n \in Lengths}

\* the values a call can be given: the encrypted inputs and the working value
Operands == Dataset \cup (IF held = NoVec THEN {} ELSE {held})

\* unencrypted constants passed to add_scalar / multiply_scalar
Scalars == {-1, 2}

\* exponents passed to power
Exponents == (-1)..MaxExp

InBounds(r) ==
    /\ r.he.mult <= MaxCount
    /\ r.he.add <= MaxCount
    /\ r.he.boot <= MaxCount
    /\ r.val.scale <= Log2BaseScale * MaxScaleFactors
    /\ r.val.level >= -MaxUnder

\* what the calls of the arithmetic unit leave alone
model_vars == <<fresh_level, weights_ct, bias_ct, decrypt_log, tr, depth_runs,
                config, data>>

\* the call returns r.val to the caller, who keeps it as the working value
Returns(op, a, b, n, scalar, r) ==
    /\ InBounds(r)
    /\ held' = r.val
    /\ multiplication_count' = r.he.mult
    /\ addition_count' = r.he.add
    /\ bootstrap_count' = r.he.boot
    /\ last' = [op |-> op, a |-> a, b |-> b, n |-> n, scalar |-> scalar,
                res |-> r.val, error |-> "none", prods |-> r.he.prods,
                mult0 |-> multiplication_count, add0 |-> addition_count,
                boot0 |-> bootstrap_count,
                same |-> r.same, a_after |-> IF r.same THEN r.val ELSE a]
    /\ UNCHANGED <<max_depth, weights, bias, model_vars>>

\* ---- configuration, dataset and provider ----
LearningRates == {1000, 2000}

Configs == [n_iter : 1..MaxIter, batch_size : 1..MaxBatch,
            learning_rate : LearningRates]

\* the k-th sample: features alternating 2 and -1, label k mod 2
Sample(k, n) == [i \in 1..n |-> IF (i + k) % 2 = 0 THEN 2 ELSE -1]
Label(k) == <<k % 2>>

DataOf(n_samples, n_features) ==
    [X |-> [k \in 1..n_samples |-> Sample(k, n_features)],
     y |-> [k \in 1..n_samples |-> Label(k)]]

TrainSets == {DataOf(n, NFeatures) : n \in 1..MaxSamples}

\* the provider calls that raise: the first of the update, the one that
\* follows the assignment to weights.ciphertext, and the last
FailCalls == {"sub_274", "encrypt_279", "sub_280"}

FailPlans ==
    {NoFailure} \cup
    {[fail_update |-> k, fail_call |-> c] :
        k \in 1..MaxFailUpdate, c \in FailCalls}

\* draws of np.random.uniform(-limit, limit, n): limit = sqrt(6 / (n + 1)) > 1
WeightValues == {-1, 1}
WeightDraws(n) == {[i \in 1..n |-> IF i = 1 THEN v ELSE 1] : v \in WeightValues}

\* np.random.permutation(n), samples numbered from 1
Perms(n) == {q \in [1..n -> 1..n] : \A i, j \in 1..n : q[i] = q[j] => i = j}

NoCall == [op |-> "init", error |-> "none", idx |-> 0, x |-> <<>>, y |-> <<>>,
           pred |-> <<>>, preds |-> <<>>, labels |-> <<>>, threshold |-> 0,
           perms |-> <<>>, trace |-> <<>>, w0 |-> <<>>, b0 |-> <<>>,
           weights0 |-> NoVec, bias0 |-> NoVec, mult0 |-> 0, add0 |-> 0,
           boot0 |-> 0, plan |-> NoFailure, draw |-> <<>>]

\* the state after __init__ and create_context, for the constructor
\* arguments, the dataset and the provider given
InitWith(configs, datasets) ==
    /\ held = NoVec
    /\ multiplication_count = 0
    /\ addition_count = 0
    /\ bootstrap_count = 0
    /\ max_depth = DefaultMaxDepth
    /\ weights = NoVec
    /\ bias = NoVec
    /\ last = [op |-> "init", a |-> NoVec, b |-> NoVec, n |-> 0, scalar |-> 0,
               res |-> NoVec, error |-> "none", prods |-> <<>>,
               mult0 |-> 0, add0 |-> 0, boot0 |-> 0,
               same |-> FALSE, a_after |-> NoVec]
    /\ fresh_level = DefaultLevel
    /\ weights_ct = <<>>
    /\ bias_ct = <<>>
    /\ decrypt_log = <<>>
    /\ tr = NoCall
    /\ depth_runs = <<>>
    /\ config \in configs
    /\ data \in datasets
    /\ config.n_iter * Len(data.X) <= MaxPasses

Init ==
    InitWith({[n_iter |-> 1, batch_size |-> 1, learning_rate |-> 1000]},
             {DataOf(1, NFeatures)})

Encrypt ==
    \E n \in Lengths :
        Returns("encrypt_vector", NoVec, NoVec, n, 0, Ret(encrypt_vector(n), Ledger))

CallAdd ==
    \E a \in Operands, b \in Operands :
        Returns("add", a, b, 0, 0, add(a, b, Ledger))

CallAddScalar ==
    \E a \in Operands, s \in Scalars :
        Returns("add_scalar", a, NoVec, 0, s, add_scalar(a, s, Ledger))

CallMultiply ==
    \E a \in Operands, b \in Operands :
        Returns("multiply", a, b, 0, 0, multiply(a, b, Ledger))

CallMultiplyScalar ==
    \E a \in Operands, s \in Scalars :
        Returns("multiply_scalar", a, NoVec, 0, s, multiply_scalar(a, s, Ledger))

CallDotProduct ==
    \E a \in Operands, b \in Operands :
        Returns("dot_product", a, b, 0, 0, dot_product(a, b, Ledger))

CallPower ==
    \E a \in Operands, n \in Exponents :
        Returns("power", a, NoVec, n, 0, power(a, n, Ledger))

CallBootstrap ==
    \E a \in Operands :
        Returns("bootstrap", a, NoVec, 0, 0, bootstrap(a, Ledger))

\* HomomorphicLogisticRegression.initialize_weights
InitializeWeights ==
    \E n_features \in {NFeatures} :
        LET st == initialize_weights(ModelState, n_features,
                                     [i \in 1..n_features |-> 1])
        IN  /\ weights' = st.weights
            /\ bias' = st.bias
            /\ weights_ct' = st.w
            /\ bias_ct' = st.b
            /\ last' = [op |-> "initialize_weights", a |-> NoVec, b |-> NoVec,
                        n |-> n_features, scalar |-> 0, res |-> NoVec,
                        error |-> "none", prods |-> <<>>,
                        mult0 |-> multiplication_count, add0 |-> addition_count,
                        boot0 |-> bootstrap_count,
                        same |-> FALSE, a_after |-> NoVec]
            /\ UNCHANGED <<held, multiplication_count, addition_count,
                           bootstrap_count, max_depth, fresh_level, decrypt_log,
                           tr, depth_runs, config, data>>

\* forward_pass on an initialized model (self.weights is not None)
CallForwardPass ==
    /\ weights # NoVec
    /\ \E enc_x \in Operands :
           Returns("forward_pass", enc_x, NoVec, 0, 0, forward_pass(enc_x, Ledger))

Next ==
    \/ Encrypt
    \/ CallAdd
    \/ CallAddScalar
    \/ CallMultiply
    \/ CallMultiplyScalar
    \/ CallDotProduct
    \/ CallPower
    \/ CallBootstrap
    \/ InitializeWeights
    \/ CallForwardPass

Spec == Init /\ [][Next]_vars

\* a caller that only encrypts and calls the arithmetic unit
NextUnit ==
    \/ Encrypt
    \/ CallAdd
    \/ CallAddScalar
    \/ CallMultiply
    \/ CallMultiplyScalar
    \/ CallDotProduct
    \/ CallPower
    \/ CallBootstrap

SpecUnit == Init /\ [][NextUnit]_vars

\* ---- the activation called on its own ----
CallSigmoidApproximation ==
    \E x \in Operands :
        Returns("sigmoid_approximation", x, NoVec, 0, 0,
                sigmoid_approximation(x, Ledger))

\* a caller that encrypts, lowers levels with dot products, refreshes and
\* applies the activation
NextActivation ==
    \/ Encrypt
    \/ CallDotProduct
    \/ CallBootstrap
    \/ CallSigmoidApproximation

SpecActivation == Init /\ [][NextActivation]_vars

\* ---- training and inference ----
\* the call as tr records it: the model and the ledger before it
Call(op) ==
    [NoCall EXCEPT !.op = op, !.w0 = weights_ct, !.b0 = bias_ct,
                   !.weights0 = weights, !.bias0 = bias,
                   !.mult0 = multiplication_count, !.add0 = addition_count,
                   !.boot0 = bootstrap_count]

\* the call leaves the model and its he_ops as st; an exception it raised
\* is st.error
Leaves(st, t) ==
    /\ multiplication_count <= MaxLedger
    /\ addition_count <= MaxLedger
    /\ bootstrap_count <= MaxLedger
    /\ weights' = st.weights
    /\ bias' = st.bias
    /\ weights_ct' = st.w
    /\ bias_ct' = st.b
    /\ multiplication_count' = st.he.mult
    /\ addition_count' = st.he.add
    /\ bootstrap_count' = st.he.boot
    /\ decrypt_log' = st.dec
    /\ tr' = [t EXCEPT !.error = st.error, !.trace = st.trace,
                       !.plan = st.plan]
    /\ UNCHANGED <<held, max_depth, last, fresh_level, config, data>>

\* initialize_weights called on the model, with any draw of the weights
TrainInitializeWeights ==
    \E raw \in WeightDraws(Len(data.X[1])) :
        /\ Leaves(initialize_weights(ModelState, Len(data.X[1]), raw),
                  Call("initialize_weights"))
        /\ UNCHANGED depth_runs

\* fit(encrypted_X, encrypted_y, n_features) on the caller's dataset
FitCall ==
    \E perms \in [1..config.n_iter -> Perms(Len(data.X))],
       raw \in (IF weights = NoVec THEN WeightDraws(Len(data.X[1]))
                ELSE {weights_ct}),
       plan \in FailPlans :
        LET c == [X |-> data.X, y |-> data.y, n_iter |-> config.n_iter,
                  batch_size |-> config.batch_size,
                  learning_rate |-> config.learning_rate,
                  perms |-> perms, draw |-> raw]
        IN  Leaves(fit(ModelStateWith(plan), c, Len(data.X[1])),
                   [Call("fit") EXCEPT !.perms = perms, !.draw = raw])

Fit == FitCall /\ UNCHANGED depth_runs

\* predict(encrypted_X) on an initialized model
Predict ==
    /\ weights # NoVec
    /\ LET r == predict(ModelState, data.X)
       IN  Leaves(r.st, [Call("predict") EXCEPT !.preds = r.preds])
    /\ UNCHANGED depth_runs

\* compute_gradient_update called with a sample, a label and a prediction
CallComputeGradientUpdate ==
    /\ weights # NoVec
    /\ \E idx \in 1..Len(data.X), y \in {<<0>>, <<1>>} :
       \E pred \in {forward_ct(data.X[idx], weights_ct, bias_ct), <<5000>>} :
           Leaves(compute_gradient_update(ModelState, idx, data.X[idx], y, pred,
                                          config.learning_rate),
                  [Call("compute_gradient_update") EXCEPT
                       !.idx = idx, !.x = data.X[idx], !.y = y, !.pred = pred])
    /\ UNCHANGED depth_runs

\* decrypted values of predictions handed to decrypt_predictions, in 1e-4
PredictionLists == {<<<<6000>>, <<5000>>, <<4000>>>>}

\* threshold = 0.5 (the default) or 0.6
Thresholds == {5000, 6000}

\* decrypt_predictions on the output of predict or on predictions of given values
DecryptPredictions ==
    /\ \E preds \in PredictionLists \cup
                    (IF tr.op = "predict" THEN {tr.preds} ELSE {}),
          threshold \in Thresholds :
           LET r == decrypt_predictions(ModelState, preds, threshold)
           IN  Leaves(r.st, [Call("decrypt_predictions") EXCEPT
                                 !.preds = preds, !.labels = r.labels,
                                 !.threshold = threshold])
    /\ UNCHANGED depth_runs

NextTrain ==
    \/ TrainInitializeWeights
    \/ Fit
    \/ Predict
    \/ CallComputeGradientUpdate
    \/ DecryptPredictions

InitTrain == InitWith(Configs, TrainSets)

SpecTrain == InitTrain /\ [][NextTrain]_vars

\* ---- the depth scenario ----
\* the depth budgets compared: the level of fresh and of refreshed values
DepthBudgets == {6, 3, 2}

\* a new model and arithmetic unit built with depth budget D
Configure(D) ==
    /\ Len(depth_runs) < MaxDepthRuns
    /\ max_depth' = D
    /\ fresh_level' = D
    /\ weights' = NoVec
    /\ bias' = NoVec
    /\ weights_ct' = <<>>
    /\ bias_ct' = <<>>
    /\ multiplication_count' = 0
    /\ addition_count' = 0
    /\ bootstrap_count' = 0
    /\ decrypt_log' = <<>>
    /\ tr' = [NoCall EXCEPT !.op = "configure"]
    /\ UNCHANGED <<held, last, depth_runs, config, data>>

\* fit on the new model; a fit that returns notes its final bootstrap_count
DepthFit ==
    /\ tr.op = "configure"
    /\ FitCall
    /\ depth_runs' = IF tr'.error = "none"
                     THEN Append(depth_runs, [depth |-> max_depth,
                                              count |-> bootstrap_count'])
                     ELSE depth_runs

NextDepth ==
    \/ \E D \in DepthBudgets : Configure(D)
    \/ DepthFit

\* n_iter = 1, one sample with one feature
InitDepth == InitWith({c \in Configs : c.n_iter = 1}, {DataOf(1, 1)})

SpecDepth == InitDepth /\ [][NextDepth]_vars

\* ---- properties ----
UnitOps == {"add", "add_scalar", "multiply", "multiply_scalar", "dot_product",
            "power", "bootstrap"}

\* C1: multiply(a, b) with a.level >= 2 and b.level >= 2 returns level
\* min(a.level, b.level) - 1, unless that is <= 1: then the returned level is
\* max_depth and bootstrap_count grew by exactly 1; otherwise bootstrap_count
\* is unchanged.
C1_MultiplyLevel ==
    (last.op = "multiply" /\ last.a.level >= 2 /\ last.b.level >= 2) =>
        LET m == Min(last.a.level, last.b.level) - 1
        IN  IF m <= 1
            THEN last.res.level = max_depth /\ bootstrap_count = last.boot0 + 1
            ELSE last.res.level = m /\ bootstrap_count = last.boot0

\* a multiply of two level->=2 operands whose product level is 1 was refreshed
C1_Witness ==
    /\ last.op = "multiply"
    /\ last.a.level >= 2 /\ last.b.level >= 2
    /\ Min(last.a.level, last.b.level) = 2
    /\ last.res.level = max_depth
    /\ bootstrap_count = last.boot0 + 1

\* C2: every value an arithmetic-unit call returns has level >= 1.
C2_ReturnedLevelAtLeastOne ==
    (last.op \in UnitOps /\ last.res # NoVec) => last.res.level >= 1

\* C3: dot_product(a, b) returns a size-1 value at level
\* min(a.level, b.level) - 1 and scale a.scale * b.scale, refreshed (level
\* max_depth, bootstrap_count + 1) when that level is <= 1.
C3_DotProductThreshold ==
    last.op = "dot_product" =>
        LET m == Min(last.a.level, last.b.level) - 1
        IN  /\ last.res.size = 1
            /\ IF m <= 1
               THEN /\ last.res.level = max_depth
                    /\ bootstrap_count = last.boot0 + 1
               ELSE /\ last.res.level = m
                    /\ last.res.scale = last.a.scale + last.b.scale
                    /\ bootstrap_count = last.boot0

\* C4: forward_pass on an initialized model never returns a value of level <= 1.
C4_ForwardPassNotExhausted ==
    last.op = "forward_pass" => last.res.level > 1

\* C5: forward_pass of a freshly encrypted enc_x (weights and bias fresh too)
\* returns a size-1 value at level max_depth - 3 and triggers no bootstrap.
C5_ForwardPassThreeLevels ==
    (last.op = "forward_pass" /\ last.a \in Dataset) =>
        /\ last.res.size = 1
        /\ last.res.level = max_depth - 3
        /\ last.res.level = 3
        /\ bootstrap_count = last.boot0

\* a forward pass of the encrypted sample has returned
C5_Witness ==
    /\ last.op = "forward_pass"
    /\ last.a = encrypt_vector(NFeatures)
    /\ weights = encrypt_vector(NFeatures) /\ bias = encrypt_vector(1)
    /\ last.res.level = 3
    /\ multiplication_count = last.mult0 + 2
\* C6: bootstrap(a), at any level of a including max_depth, returns level
\* max_depth and scale 2**40 and adds exactly 1 to bootstrap_count;
\* addition_count and multiplication_count are unchanged.
C6_BootstrapResets ==
    last.op = "bootstrap" =>
        /\ last.res.level = max_depth
        /\ last.res.scale = Log2BaseScale
        /\ bootstrap_count = last.boot0 + 1
        /\ addition_count = last.add0
        /\ multiplication_count = last.mult0

\* bootstrap was called on a value already at max_depth and was counted
C6_Witness ==
    /\ last.op = "bootstrap"
    /\ last.a.level = max_depth
    /\ last.a.scale = Log2BaseScale
    /\ bootstrap_count = last.boot0 + 1

\* level of power's running result before its i-th product
ResultLevelBefore(i) ==
    IF i = 1 THEN last.a.level
    ELSE IF last.prods[i - 1] <= 1 THEN max_depth ELSE last.prods[i - 1]

\* C7: power(a, 1) returns a (same level and scale) and changes no counter;
\* power(a, k), k >= 2, makes exactly k - 1 multiply(result, a) calls, and
\* bootstrap_count grows by the number of those products whose level
\* min(result.level, a.level) - 1 is <= 1.
C7_PowerProducts ==
    last.op = "power" =>
        /\ last.n = 1 =>
              /\ last.res = last.a
              /\ multiplication_count = last.mult0
              /\ addition_count = last.add0
              /\ bootstrap_count = last.boot0
        /\ last.n >= 2 =>
              /\ multiplication_count = last.mult0 + (last.n - 1)
              /\ Len(last.prods) = last.n - 1
              /\ \A i \in 1..Len(last.prods) :
                     last.prods[i] = Min(ResultLevelBefore(i), last.a.level) - 1
              /\ bootstrap_count = last.boot0
                     + Cardinality({i \in 1..Len(last.prods) : last.prods[i] <= 1})
              /\ addition_count = last.add0

\* power(a, 3) whose first product was returned as is and whose second was refreshed
C7_Witness ==
    /\ last.op = "power"
    /\ last.n = 3
    /\ Len(last.prods) = 2
    /\ last.prods[1] > 1
    /\ last.prods[2] <= 1
    /\ bootstrap_count = last.boot0 + 1
    /\ multiplication_count = last.mult0 + 2

\* C8: power(a, n) with n < 1 fails with InvalidExponent, returns no value and
\* changes no counter.
C8_PowerInvalidExponent ==
    (last.op = "power" /\ last.n < 1) =>
        /\ last.error = "InvalidExponent"
        /\ last.res = NoVec
        /\ multiplication_count = last.mult0
        /\ addition_count = last.add0
        /\ bootstrap_count = last.boot0

\* C9: add(a, b) returns size max(a.size, b.size), level min(a.level, b.level)
\* and scale a.scale, adds exactly 1 to addition_count and leaves
\* multiplication_count and bootstrap_count alone.
C9_AddFrame ==
    last.op = "add" =>
        /\ last.res.size = Max(last.a.size, last.b.size)
        /\ last.res.level = Min(last.a.level, last.b.level)
        /\ last.res.scale = last.a.scale
        /\ addition_count = last.add0 + 1
        /\ multiplication_count = last.mult0
        /\ bootstrap_count = last.boot0

\* an add whose first operand is the larger, the fresher and of the smaller scale
C9_Witness ==
    /\ last.op = "add"
    /\ last.a.size > last.b.size
    /\ last.a.level > last.b.level
    /\ last.a.scale < last.b.scale
    /\ last.res.level = last.b.level

\* C10: multiply_scalar(a, s) and add_scalar(a, s) return the size, level and
\* scale of a, for every a and s, and trigger no bootstrap.
C10_ScalarOpsKeepDepth ==
    last.op \in {"multiply_scalar", "add_scalar"} =>
        /\ last.res.size = last.a.size
        /\ last.res.level = last.a.level
        /\ last.res.scale = last.a.scale
        /\ bootstrap_count = last.boot0

\* multiply_scalar on a value one product away from a refresh kept its level
C10_Witness ==
    /\ last.op = "multiply_scalar"
    /\ last.a.level = 2
    /\ last.a.scale > Log2BaseScale
    /\ last.res = last.a
    /\ bootstrap_count = last.boot0
\* C11: a fit that returns with n_iter = E over N samples has made E * N
\* forward passes and E * N updates, strictly alternating: the k-th forward
\* pass is followed by the update of the same sample and then by the next
\* forward pass, and within every epoch each sample index is processed
\* exactly once, in the order of the epoch's permutation.
C11_FitAlternates ==
    (tr.op = "fit" /\ tr.error = "none") =>
        LET E == config.n_iter
            N == Len(data.X)
            at(e, p) == (e - 1) * N + p
        IN  /\ Len(tr.trace) = 2 * E * N
            /\ \A e \in 1..E, p \in 1..N :
                   /\ tr.trace[2 * at(e, p) - 1] = <<"forward", tr.perms[e][p]>>
                   /\ tr.trace[2 * at(e, p)] = <<"update", tr.perms[e][p]>>
            /\ \A e \in 1..E, i \in 1..N :
                   Cardinality({p \in 1..N :
                       tr.trace[2 * at(e, p) - 1][2] = i}) = 1

\* a fit of two epochs over two samples, the epochs in different orders
C11_Witness ==
    /\ tr.op = "fit"
    /\ tr.error = "none"
    /\ config.n_iter = 2
    /\ Len(data.X) = 2
    /\ Len(tr.trace) = 8
    /\ tr.perms[1] # tr.perms[2]

\* C12: predict returns one prediction per input sample, the i-th being the
\* forward pass of the i-th input under the weights and bias it was called
\* with, and leaves weights and bias (payload, level, scale, size) as they
\* were.
C12_PredictFrame ==
    tr.op = "predict" =>
        /\ Len(tr.preds) = Len(data.X)
        /\ \A i \in 1..Len(data.X) :
               tr.preds[i] = forward_ct(data.X[i], tr.w0, tr.b0)
        /\ tr.trace = [i \in 1..Len(data.X) |-> <<"forward", i>>]
        /\ weights = tr.weights0
        /\ bias = tr.bias0
        /\ weights_ct = tr.w0
        /\ bias_ct = tr.b0

\* a predict over two samples whose predictions differ
C12_Witness ==
    /\ tr.op = "predict"
    /\ Len(tr.preds) = 2
    /\ tr.preds[1] # tr.preds[2]
    /\ weights_ct = tr.w0

\* C13: decrypt_predictions returns one label per prediction, in input
\* order: 1 if the decrypted value is >= threshold, 0 otherwise.
C13_InclusiveThreshold ==
    tr.op = "decrypt_predictions" =>
        /\ Len(tr.labels) = Len(tr.preds)
        /\ \A i \in 1..Len(tr.preds) :
               /\ tr.labels[i] \in {0, 1}
               /\ tr.labels[i] = 1 <=> tr.preds[i][1] >= tr.threshold

\* 0.6, exactly 0.5 and 0.4 at threshold 0.5
C13_Witness ==
    /\ tr.op = "decrypt_predictions"
    /\ tr.threshold = 5000
    /\ tr.preds = <<<<6000>>, <<5000>>, <<4000>>>>
    /\ tr.labels = <<1, 1, 0>>

\* C14: only decrypt_predictions decrypts, and it decrypts exactly the
\* predictions passed to it: after any other call on the model no plaintext
\* has been read.
C14_DecryptOnlyPredictions ==
    /\ tr.op # "decrypt_predictions" => decrypt_log = <<>>
    /\ tr.op = "decrypt_predictions" => decrypt_log = tr.preds

\* decrypt_predictions on a trained model reads the predictions only
C14_Witness ==
    /\ tr.op = "decrypt_predictions"
    /\ weights_ct # <<>>
    /\ multiplication_count > 0
    /\ decrypt_log = tr.preds
    /\ Len(decrypt_log) > 0

\* C15: initialize_weights called on a model whose weights are initialized
\* fails and leaves weights and bias as they were.
C15_SecondInitializeFails ==
    (tr.op = "initialize_weights" /\ tr.weights0 # NoVec) =>
        /\ tr.error # "none"
        /\ weights = tr.weights0
        /\ bias = tr.bias0
        /\ weights_ct = tr.w0
        /\ bias_ct = tr.b0

\* the updates a fit completed, and the sum over them of feature i of the
\* sample updated
CompletedUpdates(trace) == {k \in 1..Len(trace) : trace[k][1] = "update"}

RECURSIVE FeatureSum(_, _, _)
FeatureSum(trace, k, i) ==
    IF k = 0 THEN 0
    ELSE FeatureSum(trace, k - 1, i) +
         (IF trace[k][1] = "update" THEN data.X[trace[k][2]][i] ELSE 0)

\* C16: a fit ended by a provider failure leaves weights and bias as the
\* completed updates made them: the weights and bias training started from,
\* moved by one step per completed update and by nothing else.
C16_NoPartialUpdate ==
    (tr.op = "fit" /\ tr.error # "none") =>
        LET w_start == tr.draw
            b_start == IF tr.weights0 = NoVec THEN <<0>> ELSE tr.b0
            step == UpdateStep(config.learning_rate)
        IN  /\ bias_ct = <<b_start[1] - step * Cardinality(CompletedUpdates(tr.trace))>>
            /\ weights_ct = [i \in 1..Len(w_start) |->
                   w_start[i] - step * FeatureSum(tr.trace, Len(tr.trace), i)]

\* C17: over fits with n_iter = 1 on one sample with one feature, each on a
\* new model whose depth budget is 6, 3 or 2, the final bootstrap_count does
\* not decrease as the budget decreases.
C17_BootstrapsMonotoneInDepth ==
    \A i, j \in 1..Len(depth_runs) :
        depth_runs[i].depth <= depth_runs[j].depth =>
            depth_runs[i].count >= depth_runs[j].count

\* the three budgets have been run: no refresh at 6, some at 2
C17_Witness ==
    /\ {depth_runs[i].depth : i \in 1..Len(depth_runs)} = DepthBudgets
    /\ \E i, j \in 1..Len(depth_runs) :
           /\ depth_runs[i].depth = 6
           /\ depth_runs[i].count = 0
           /\ depth_runs[j].depth = 2
           /\ depth_runs[j].count > 0

\* C18: an operation of the arithmetic unit leaves the level, scale and size
\* of its operands as they were and returns a value that is none of its
\* operands.
C18_OperandsNotMutated ==
    (last.op \in UnitOps /\ last.error = "none") =>
        /\ last.a_after = last.a
        /\ ~last.same

\* the model a fit was called on, as tr recorded it
BeforeFit ==
    [weights |-> tr.weights0, bias |-> tr.bias0, w |-> tr.w0, b |-> tr.b0,
     he |-> [mult |-> tr.mult0, add |-> tr.add0, boot |-> tr.boot0,
             prods |-> <<>>],
     dec |-> <<>>, trace |-> <<>>, error |-> "none", updates |-> 0,
     plan |-> tr.plan]

\* C19: for the same samples, n_iter, permutations, drawn weights and
\* provider behaviour, fit makes the same sequence of forward passes and
\* updates and ends with the same weights, bias and counters whatever
\* batch_size >= 1 is, sizes above the number of samples included.
C19_BatchSizeIrrelevant ==
    tr.op = "fit" =>
        \A batch_size \in 1..(MaxBatch + 1) :
            LET c == [X |-> data.X, y |-> data.y, n_iter |-> config.n_iter,
                      batch_size |-> batch_size,
                      learning_rate |-> config.learning_rate,
                      perms |-> tr.perms, draw |-> tr.draw]
                st == fit(BeforeFit, c, Len(data.X[1]))
            IN  /\ tr.trace = st.trace
                /\ tr.error = st.error
                /\ weights_ct = st.w
                /\ bias_ct = st.b
                /\ weights = st.weights
                /\ bias = st.bias
                /\ multiplication_count = st.he.mult
                /\ addition_count = st.he.add
                /\ bootstrap_count = st.he.boot

\* a fit of two epochs over two samples in one batch larger than the dataset
C19_Witness ==
    /\ tr.op = "fit"
    /\ tr.error = "none"
    /\ config.batch_size > Len(data.X)
    /\ Len(data.X) = 2
    /\ Len(tr.trace) = 8
    /\ weights_ct # tr.draw

\* C20: compute_gradient_update moves the weights by
\* enc_x * learning_rate * 0.01 * 0.1 and the bias by
\* learning_rate * 0.01 * 0.1, whatever enc_y and enc_pred are.
C20_UpdateIgnoresError ==
    (tr.op = "compute_gradient_update" /\ tr.error = "none") =>
        LET step == UpdateStep(config.learning_rate)
        IN  /\ weights_ct = [i \in 1..Len(tr.w0) |-> tr.w0[i] - tr.x[i] * step]
            /\ bias_ct = <<tr.b0[1] - step>>
            /\ weights = tr.weights0
            /\ bias = tr.bias0

\* an update made with a label and a prediction that differ
C20_Witness ==
    /\ tr.op = "compute_gradient_update"
    /\ tr.error = "none"
    /\ tr.y = <<1>>
    /\ tr.pred # <<10000>>
    /\ tr.pred # <<5000>>
    /\ weights_ct # tr.w0

\* C21: a ciphertext-ciphertext product (multiply, dot_product, the dot
\* product inside forward_pass) taken of an operand of level <= 1 on which
\* no refresh fires does not return: the call fails with DepthExhaustion.
C21_ExhaustedOperandFails ==
    /\ (/\ last.op \in {"multiply", "dot_product"}
        /\ Min(last.a.level, last.b.level) <= 1
        /\ bootstrap_count = last.boot0) => last.error = "DepthExhaustion"
    /\ (/\ last.op = "forward_pass"
        /\ Min(last.a.level, weights.level) <= 1) =>
            last.error = "DepthExhaustion"

\* C22: sigmoid_approximation(x) makes exactly two multiply calls and
\* returns level x.level - 2, or level max_depth when x.level - 2 <= 1.
C22_SigmoidTwoLevels ==
    last.op = "sigmoid_approximation" =>
        /\ multiplication_count = last.mult0 + 2
        /\ Len(last.prods) = 2
        /\ IF last.a.level - 2 <= 1
           THEN last.res.level = max_depth
           ELSE last.res.level = last.a.level - 2

\* C23: with max_depth = 6 and fresh values at level 6, no call of fit,
\* predict or any other method of the model makes bootstrap fire:
\* bootstrap_count stays 0.
C23_NoBootstrapByDefault ==
    (max_depth = DefaultMaxDepth /\ fresh_level = DefaultLevel) =>
        bootstrap_count = 0

\* a predict over two samples on a model that training has moved
C23_Witness ==
    /\ tr.op = "predict"
    /\ Len(data.X) = 2
    /\ bias_ct # <<0>>
    /\ multiplication_count > tr.mult0
    /\ tr.mult0 >= 4
    /\ bootstrap_count = 0

\* C24: a fit that returns with n_iter = E over N samples adds 4 * E * N to
\* multiplication_count and to addition_count; a predict over M samples adds
\* 2 * M to each.
C24_LedgerTotals ==
    /\ (tr.op = "fit" /\ tr.error = "none") =>
           /\ multiplication_count =
                  tr.mult0 + 4 * config.n_iter * Len(data.X)
           /\ addition_count = tr.add0 + 4 * config.n_iter * Len(data.X)
    /\ tr.op = "predict" =>
           /\ multiplication_count = tr.mult0 + 2 * Len(data.X)
           /\ addition_count = tr.add0 + 2 * Len(data.X)

\* a fit of two epochs over two samples on a ledger already in use
C24_Witness ==
    /\ tr.op = "fit"
    /\ tr.error = "none"
    /\ config.n_iter = 2
    /\ Len(data.X) = 2
    /\ tr.mult0 > 0
    /\ multiplication_count = tr.mult0 + 16

\* C25: once the weights are initialized, weights and bias keep level 6 and
\* scale 2^40, weights.size = n_features and bias.size = 1, after every call.
C25_ParameterMetadata ==
    weights # NoVec =>
        /\ weights = HEVector(Len(data.X[1]), DefaultLevel, Log2BaseScale)
        /\ bias = HEVector(1, DefaultLevel, Log2BaseScale)

\* an update applied to weights that earlier calls have trained
C25_Witness ==
    /\ tr.op = "compute_gradient_update"
    /\ tr.mult0 >= 4
    /\ weights_ct # tr.w0
    /\ weights.level = DefaultLevel
    /\ bias.level = DefaultLevel

\* C26: a fit called on a model that has weights does not initialize them:
\* it keeps the encrypted weights and bias objects, trains on from the
\* payloads the previous call left, and gives the same result whatever its
\* n_features argument is.
C26_FitInitializesOnce ==
    (tr.op = "fit" /\ tr.weights0 # NoVec) =>
        LET step == UpdateStep(config.learning_rate)
            c == [X |-> data.X, y |-> data.y, n_iter |-> config.n_iter,
                  batch_size |-> config.batch_size,
                  learning_rate |-> config.learning_rate,
                  perms |-> tr.perms, draw |-> tr.draw]
        IN  /\ weights = tr.weights0
            /\ bias = tr.bias0
            /\ bias_ct = <<tr.b0[1] -
                              step * Cardinality(CompletedUpdates(tr.trace))>>
            /\ tr.error = "none" =>
                   weights_ct = [i \in 1..Len(tr.w0) |->
                       tr.w0[i] - step * FeatureSum(tr.trace, Len(tr.trace), i)]
            /\ \A n_features \in 1..(NFeatures + 1) :
                   LET st == fit(BeforeFit, c, n_features)
                   IN  /\ st.w = weights_ct
                       /\ st.b = bias_ct
                       /\ st.weights = weights
                       /\ st.bias = bias

\* a fit on a model whose bias earlier training has moved
C26_Witness ==
    /\ tr.op = "fit"
    /\ tr.error = "none"
    /\ tr.weights0 # NoVec
    /\ tr.b0 # <<0>>
    /\ tr.mult0 >= 4
    /\ Len(tr.trace) > 0

====
